---- MODULE Spec2Model ----
(***************************************************************************)
(* A model of playtag's SVF parser, src/playtag/svf/parser.py (Python 2).  *)
(*                                                                         *)
(* ParseSVF.parse is a pipeline of generators: gettokens -> getcmds ->     *)
(* the dispatch loop of parse, which calls one cmd_* interpreter per       *)
(* command.  The interpreters are modelled as operators that take the      *)
(* session (the attributes of the ParseSVF instance) and the command's     *)
(* parameters and return the session they leave, the record they return    *)
(* and the exception they raise.                                           *)
(*                                                                         *)
(* Two specifications share the interpreters and the dispatch loop:        *)
(*   Spec     draws whole commands, as getcmds yields them, from bounded   *)
(*            sets, one action per interpreter;                            *)
(*   SpecAsm  draws the file token by token and runs getcmds on it.        *)
(*                                                                         *)
(* Python values: None is <<>> and a value v that may be None is <<v>>;    *)
(* a token is the record [text, values] (AnnotatedString: an ordinary      *)
(* token has no values); a str of hex digits is a sequence of characters;  *)
(* a str of bytes is a sequence of 0..255; a float is held in tenths.      *)
(***************************************************************************)
EXTENDS Integers, Sequences, FiniteSets, TLC

VARIABLES
    sticky,         \* self.sticky: register -> AnyDict(length, MASK, SMASK, TDI, TDO)
    FREQUENCY,      \* self.FREQUENCY
    ENDDR,          \* self.ENDDR
    ENDIR,          \* self.ENDIR
    RUNSTATE,       \* self.RUNSTATE
    ENDSTATE,       \* self.ENDSTATE
    tok_linenum,    \* gettokens: linenum
    cmd,            \* getcmds: cmd, the command buffer
    cmdlinenum,     \* getcmds: cmdlinenum
    inparen,        \* getcmds: inside the inner loop that follows "("
    subcmd,         \* getcmds: subcmd
    startline,      \* history: the line of the first token of the command in cmd
    parse_linenum,  \* parse: linenum (None until the first command)
    parse_cmd,      \* parse: cmd     (None until the first command)
    out,            \* the records parse has yielded, in order
    raised,         \* the exception that left parse, NoExc if none
    pc,             \* "running" | "stopped": the generator's position
    dispatched,     \* history: the commands parse has taken from getcmds
    consumed        \* history: the number of tokens read so far

vars == <<sticky, FREQUENCY, ENDDR, ENDIR, RUNSTATE, ENDSTATE, tok_linenum, cmd,
          cmdlinenum, inparen, subcmd, startline, parse_linenum, parse_cmd, out, raised, pc,
          dispatched, consumed>>

session == <<sticky, FREQUENCY, ENDDR, ENDIR, RUNSTATE, ENDSTATE>>
asmvars == <<tok_linenum, cmd, cmdlinenum, inparen, subcmd, startline, consumed>>

(***************************************************************************)
(* Bounds of the model.                                                    *)
(***************************************************************************)
MaxCmds == 2        \* Spec: commands per parse
MaxRunLen == 5      \* SpecRuntest: parameters of the RUNTEST command
MaxToks == 6        \* SpecAsm: tokens per file
MaxLine == 2        \* SpecAsm: lines per file

(***************************************************************************)
(* Python values.                                                          *)
(***************************************************************************)
None == <<>>
Some(v) == <<v>>

Last(s) == s[Len(s)]

\* An exception is its type and its args; NoExc stands for "nothing raised".
NoExc == [type |-> "none", args |-> <<>>]
Exc(type, args) == [type |-> type, args |-> args]
SvfError(message) == Exc("SvfError", <<message>>)

\* What an interpreter hands back: the session it leaves, the record it
\* returns (None if none, or if it raised) and the exception it raised.
Returns(self, value) == [self |-> self, value |-> value, exc |-> NoExc]
Raises(self, exc) == [self |-> self, value |-> None, exc |-> exc]

(***************************************************************************)
(* Class attributes.                                                       *)
(***************************************************************************)
hexdata_text == "(<hexdata>)"
paramtypes == <<"MASK", "SMASK", "TDI", "TDO">>
nodata == <<0, <<>>>>
stable == {"IRPAUSE", "DRPAUSE", "RESET", "IDLE"}
registers == <<"SIR", "SDR", "HIR", "HDR", "TIR", "TDR">>

Range(s) == {s[i] : i \in 1..Len(s)}

\* An ordinary token (a str) and a hex block (an AnnotatedString with values).
Tok(text) == [text |-> text, values |-> <<>>]
Hex(values) == [text |-> hexdata_text, values |-> values]

\* The JTAG state table, built from playtag.jtag.states: name -> state id.
StateNames ==
    <<"RESET", "IDLE", "DRSELECT", "DRCAPTURE", "DRSHIFT", "DREXIT1", "DRPAUSE",
      "DREXIT2", "DRUPDATE", "IRSELECT", "IRCAPTURE", "IRSHIFT", "IREXIT1",
      "IRPAUSE", "IREXIT2", "IRUPDATE">>
states == [n \in Range(StateNames) |-> CHOOSE i \in 1..Len(StateNames) : StateNames[i] = n]

(***************************************************************************)
(* int(), float() and unhexlify().                                         *)
(***************************************************************************)
\* int(text) over the model's tokens: None when int() raises ValueError.
int(text) ==
    CASE text = "0" -> Some(0)
      [] text = "5" -> Some(5)
      [] text = "8" -> Some(8)
      [] text = "16" -> Some(16)
      [] text = "100" -> Some(100)
      [] text = "-8" -> Some(0 - 8)
      [] OTHER -> None

\* float(text) over the model's tokens, in tenths: None when float() raises.
float(text) ==
    CASE text = "0" -> Some(0)
      [] text = "5" -> Some(50)
      [] text = "5.0" -> Some(50)
      [] text = "1.5" -> Some(15)
      [] text = "2.0" -> Some(20)
      [] text = "8" -> Some(80)
      [] text = "16" -> Some(160)
      [] text = "100" -> Some(1000)
      [] text = "-8" -> Some(0 - 80)
      [] OTHER -> None

HexUpper == <<"0", "1", "2", "3", "4", "5", "6", "7", "8", "9", "A", "B", "C", "D", "E", "F">>
HexLower == <<"0", "1", "2", "3", "4", "5", "6", "7", "8", "9", "a", "b", "c", "d", "e", "f">>
IsHexDigit(c) == c \in Range(HexUpper) \cup Range(HexLower)
HexVal(c) ==
    IF c \in Range(HexUpper)
    THEN (CHOOSE i \in 1..16 : HexUpper[i] = c) - 1
    ELSE (CHOOSE i \in 1..16 : HexLower[i] = c) - 1

\* ''.join(data)
RECURSIVE join(_)
join(data) == IF data = <<>> THEN <<>> ELSE Head(data) \o join(Tail(data))

\* binascii.unhexlify: None for TypeError (odd length, or a non-hex digit).
unhexlify(s) ==
    IF Len(s) % 2 = 1 \/ \E i \in 1..Len(s) : ~IsHexDigit(s[i])
    THEN None
    ELSE Some([i \in 1..(Len(s) \div 2) |-> 16 * HexVal(s[2 * i - 1]) + HexVal(s[2 * i])])

\* The padding put after the digits instead of before them.
PadOdd_appending(data) == IF Len(join(data)) % 2 = 1 THEN data \o <<<<"0">>>> ELSE data

\* cmd_reg, lines 207-208: data.insert(0, '0') when the digit count is odd.
PadOdd(data) == IF Len(join(data)) % 2 = 1 THEN <<<<"0">>>> \o data ELSE data

(***************************************************************************)
(* cmd_reg (HDR, HIR, TDR, TIR, and the first phase of SIR, SDR).          *)
(***************************************************************************)
\* The test of line 195 without its comparison.
Stale_whenever_set(plen, length) == plen # 0

\* Line 195: a parameter of another width is stale.
Stale(plen, length) == plen # 0 /\ plen # length

\* Lines 193-196.
Invalidate(mydict, length) ==
    [k \in DOMAIN mydict |->
        IF k \in Range(paramtypes) /\ Stale(mydict[k][1], length)
        THEN nodata
        ELSE mydict[k]]

\* Lines 197-213: the loop over the (name, hex block) pairs.
RECURSIVE reg_params(_, _, _, _)
reg_params(self, c, length, iterparams) ==
    IF iterparams = <<>> THEN Returns(self, None)
    ELSE
        LET param == Head(iterparams)
            mydict == self.sticky[c]
            data == IF Len(iterparams) >= 2 THEN iterparams[2] ELSE Tok("")
            rest == IF Len(iterparams) >= 2 THEN Tail(Tail(iterparams)) ELSE <<>>
            bytes == unhexlify(join(PadOdd(data.values)))
        IN  IF param.text \notin DOMAIN mydict
            THEN Raises(self, SvfError("Unknown parameter name"))
            ELSE IF data.text # hexdata_text
            THEN Raises(self, SvfError("Expected (<hex data>) after parameter"))
            ELSE IF bytes = None
            THEN Raises(self, SvfError("Invalid (<hex data>) for parameter"))
            ELSE reg_params(
                    [self EXCEPT !.sticky[c][param.text] = <<length, bytes[1]>>],
                    c, length, rest)

\* Lines 187-196, then the loop.
cmd_reg(self, c, iterparams, linenum) ==
    LET length == IF iterparams = <<>> THEN None ELSE int(Head(iterparams).text)
    IN  IF length = None
        THEN Raises(self, SvfError("Missing or invalid bit count"))
        ELSE
            LET mydict == [self.sticky[c] EXCEPT !.length = length[1]]
                self1 == [self EXCEPT !.sticky[c] = Invalidate(mydict, length[1])]
            IN  reg_params(self1, c, length[1], Tail(iterparams))

(***************************************************************************)
(* cmd_enddrir (ENDIR, ENDDR).                                             *)
(***************************************************************************)
cmd_enddrir(self, c, iterparams, linenum) ==
    IF iterparams = <<>>
    THEN \* line 167 reads the loop variable of a loop that never ran
         Raises(self, Exc("UnboundLocalError", <<"state">>))
    ELSE
        LET state == Head(iterparams).text
        IN  IF state \notin stable
            THEN Raises(self, SvfError("is not a valid SVF stable state"))
            ELSE IF Len(iterparams) >= 2
            THEN Raises(self, SvfError("Expected single state parameter"))
            ELSE Returns([self EXCEPT ![c] = states[state]], None)

(***************************************************************************)
(* cmd_frequency.                                                          *)
(***************************************************************************)
Frequency(freq, linenum) == [kind |-> "Frequency", freq |-> freq, linenum |-> linenum]

cmd_frequency(self, c, iterparams, linenum) ==
    IF iterparams = <<>>
    THEN Returns([self EXCEPT !.FREQUENCY = None], Some(Frequency(None, linenum)))
    ELSE
        LET freq == float(Head(iterparams).text)
            tokcount == Len(iterparams) - 1
        IN  IF freq = None
            THEN Raises(self, SvfError("is not a valid floating point number"))
            ELSE IF tokcount # 1 \/ Last(iterparams).text # "HZ"
            THEN Raises(self, SvfError("Unexpected text after frequency"))
            ELSE Returns([self EXCEPT !.FREQUENCY = freq], Some(Frequency(freq, linenum)))

(***************************************************************************)
(* cmd_runtest.                                                            *)
(***************************************************************************)
RunTest(numclocks, use_sck, secs, runstate, endstate, linenum) ==
    [kind |-> "RunTest", numclocks |-> numclocks, use_sck |-> use_sck, secs |-> secs,
     runstate |-> runstate, endstate |-> endstate, linenum |-> linenum]

\* timing.get(param), line 66: None when the key is absent.
timing(text) ==
    CASE text = "TCK" -> Some(0)
      [] text = "SCK" -> Some(1)
      [] text = "SEC" -> Some(2)
      [] OTHER -> None

\* Line 225: numclocks != secs[0], an int (or None) against a float (or None).
clock_specified(numclocks, secs) ==
    IF numclocks = None \/ secs[1] = None
    THEN numclocks # secs[1]
    ELSE 10 * numclocks[1] # secs[1][1]

\* Lines 249 and 252 read the bare name `states`.  It is an attribute of the
\* class (line 69), not a name of the module's globals (line 21 imports the
\* state table as jtagstates): the lookup raises NameError.
global_states == None

\* The locals of cmd_runtest, lines 217-221, with the session and the
\* exception raised so far.
runtest_locals(self) ==
    [use_sck |-> FALSE, secs |-> <<None, None>>, numclocks |-> None, do_max |-> FALSE,
     do_end |-> FALSE, did_end |-> FALSE, prev_num |-> None, self |-> self, exc |-> NoExc]

\* secs[0] whatever do_max is.
secs_slot_minimum(do_max) == 1

\* The slot of secs that a SEC clause fills, line 232 and 236: secs[do_max].
secs_slot(do_max) == IF do_max THEN 2 ELSE 1

\* Lines 226-246: the token that follows a buffered value.
runtest_unit(l, num, param, clock_spec) ==
    LET clocktype == timing(param.text)
    IN  IF clocktype = None
        THEN [l EXCEPT !.exc = SvfError("Unexpected clause")]
        ELSE IF clocktype[1] = 2
        THEN IF l.secs[secs_slot(l.do_max)] # None
             THEN [l EXCEPT !.exc = SvfError("Seconds specified twice")]
             ELSE IF float(num.text) = None
             THEN [l EXCEPT !.exc = SvfError("is not a valid floating point number")]
             ELSE [l EXCEPT !.secs[secs_slot(l.do_max)] = float(num.text)]
        ELSE LET l1 == [l EXCEPT !.use_sck = (clocktype[1] = 1)]
             IN  IF l.do_max \/ clock_spec
                 THEN [l1 EXCEPT !.exc = SvfError("Invalid TCK/SCK specification")]
                 ELSE IF int(num.text) = None
                 THEN [l1 EXCEPT !.exc = SvfError("is not a valid integer number")]
                 ELSE [l1 EXCEPT !.numclocks = int(num.text)]

\* Lines 247-254: a stable state name.
runtest_state(l, param, clock_spec) ==
    IF l.do_end /\ ~l.did_end /\ clock_spec
    THEN IF global_states = None
         THEN [l EXCEPT !.exc = Exc("NameError", <<"states">>)]
         ELSE [l EXCEPT !.self.ENDSTATE = global_states[1][param.text], !.did_end = TRUE]
    ELSE IF ~l.do_end /\ ~clock_spec
    THEN IF global_states = None
         THEN [l EXCEPT !.exc = Exc("NameError", <<"states">>)]
         ELSE [l EXCEPT !.self.RUNSTATE = global_states[1][param.text],
                        !.self.ENDSTATE = global_states[1][param.text]]
    ELSE [l EXCEPT !.exc = SvfError("Unexpected state")]

\* Lines 222-266: one pass of the loop body.
runtest_step(l0, param) ==
    LET num == l0.prev_num
        l == [l0 EXCEPT !.prev_num = None]
        clock_spec == clock_specified(l0.numclocks, l0.secs)
    IN  IF num # None THEN runtest_unit(l, num[1], param, clock_spec)
        ELSE IF param.text \in stable THEN runtest_state(l, param, clock_spec)
        ELSE IF l.do_end THEN [l EXCEPT !.exc = SvfError("Invalid endstate")]
        ELSE IF param.text = "MAXIMUM"
        THEN IF l.secs[1] = None \/ l.secs[2] # None
             THEN [l EXCEPT !.exc = SvfError("Cannot do MAXIMUM SEC without SEC")]
             ELSE [l EXCEPT !.do_max = TRUE]
        ELSE IF param.text = "ENDSTATE"
        THEN IF ~clock_spec
             THEN [l EXCEPT !.exc = SvfError("Unexpected ENDSTATE")]
             ELSE [l EXCEPT !.do_end = TRUE]
        ELSE [l EXCEPT !.prev_num = Some(param)]

RECURSIVE runtest_loop(_, _)
runtest_loop(l, iterparams) ==
    IF iterparams = <<>> \/ l.exc # NoExc THEN l
    ELSE runtest_loop(runtest_step(l, Head(iterparams)), Tail(iterparams))

\* Line 267, or the exception that ended the loop.
runtest_return(l, linenum) ==
    IF l.exc # NoExc THEN Raises(l.self, l.exc)
    ELSE Returns(l.self, Some(RunTest(l.numclocks, l.use_sck, l.secs,
                                      l.self.RUNSTATE, l.self.ENDSTATE, linenum)))

cmd_runtest(self, c, iterparams, linenum) ==
    runtest_return(runtest_loop(runtest_locals(self), iterparams), linenum)

(***************************************************************************)
(* cmd_shift (SIR, SDR).  The record holds the register dicts themselves:  *)
(* header, data and trailer are references into self.sticky, modelled by   *)
(* the register's name; Deref reads what a reference shows now.            *)
(***************************************************************************)
Shift(c, header, data, trailer, endstate, linenum) ==
    [kind |-> "Shift", cmd |-> c, header |-> header, data |-> data, trailer |-> trailer,
     endstate |-> endstate, linenum |-> linenum]

\* The trailer's name taken for the header's.
header_of_trailer(c) == IF c = "SIR" THEN "TIR" ELSE "TDR"

\* Lines 273, 274 and 276: 'H' + cmd[1:], 'T' + cmd[1:], 'END%sR' % cmd[1].
header_of(c) == IF c = "SIR" THEN "HIR" ELSE "HDR"
trailer_of(c) == IF c = "SIR" THEN "TIR" ELSE "TDR"
endattr_of(c) == IF c = "SIR" THEN "ENDIR" ELSE "ENDDR"

\* Lines 272-277: what follows the call of cmd_reg, whose outcome is r.
shift_return(r, c, linenum) ==
    IF r.exc # NoExc THEN r
    ELSE Returns(r.self, Some(Shift(c, header_of(c), c, trailer_of(c),
                                    r.self[endattr_of(c)], linenum)))

cmd_shift(self, c, iterparams, linenum) ==
    shift_return(cmd_reg(self, c, iterparams, linenum), c, linenum)

(***************************************************************************)
(* cmd_state.                                                              *)
(***************************************************************************)
State(statelist, linenum) == [kind |-> "State", statelist |-> statelist, linenum |-> linenum]

\* states.get(state), line 284: None for a name the table does not hold.
getstate(text) == IF text \in DOMAIN states THEN Some(states[text]) ELSE None

RECURSIVE state_loop(_, _)
state_loop(statelist, iterparams) ==
    IF iterparams = <<>> THEN Some(statelist)
    ELSE LET s == getstate(Head(iterparams).text)
         IN  IF s = None THEN None
             ELSE state_loop(Append(statelist, s[1]), Tail(iterparams))

\* Lines 285-290: statelist is None when the loop raised.
state_return(self, statelist, iterparams, linenum) ==
    IF statelist = None
    THEN Raises(self, SvfError("Invalid state"))
    ELSE IF iterparams = <<>>
    THEN \* line 288 reads the loop variable of a loop that never ran
         Raises(self, Exc("UnboundLocalError", <<"state">>))
    ELSE IF Last(iterparams).text \notin stable
    THEN Raises(self, SvfError("is not a stable state"))
    ELSE Returns(self, Some(State(statelist[1], linenum)))

cmd_state(self, c, iterparams, linenum) ==
    state_return(self, state_loop(<<>>, iterparams), iterparams, linenum)

(***************************************************************************)
(* cmd_trst.                                                               *)
(***************************************************************************)
Trst(value, linenum) == [kind |-> "TRST", value |-> value, linenum |-> linenum]

\* valid_trst, line 74.
valid_trst == [ON |-> 1, OFF |-> 0, Z |-> 2, ABSENT |-> 3]

cmd_trst(self, c, iterparams, linenum) ==
    IF Len(iterparams) # 1
    THEN Raises(self, SvfError("Expected a single parameter"))
    ELSE LET param == iterparams[1].text
         IN  IF param \notin DOMAIN valid_trst
             THEN \* line 298 subscripts the dict: a missing key raises KeyError
                  Raises(self, Exc("KeyError", <<param>>))
             ELSE Returns(self, Some(Trst(valid_trst[param], linenum)))

(***************************************************************************)
(* parse: the dispatch table and the body of the loop over the commands.   *)
(***************************************************************************)
\* cmds.get(cmd), lines 304-307 and 318: None for a token that is no keyword.
cmds(text) ==
    CASE text \in {"ENDIR", "ENDDR"} -> Some("cmd_enddrir")
      [] text = "FREQUENCY" -> Some("cmd_frequency")
      [] text \in {"HDR", "HIR", "TDR", "TIR"} -> Some("cmd_reg")
      [] text \in {"SIR", "SDR"} -> Some("cmd_shift")
      [] text = "RUNTEST" -> Some("cmd_runtest")
      [] text = "STATE" -> Some("cmd_state")
      [] text = "TRST" -> Some("cmd_trst")
      [] OTHER -> None

\* Line 321: cmdproc(self, cmd, iterparams, linenum).
cmdproc(proc, self, c, iterparams, linenum) ==
    CASE proc = "cmd_enddrir" -> cmd_enddrir(self, c, iterparams, linenum)
      [] proc = "cmd_frequency" -> cmd_frequency(self, c, iterparams, linenum)
      [] proc = "cmd_reg" -> cmd_reg(self, c, iterparams, linenum)
      [] proc = "cmd_shift" -> cmd_shift(self, c, iterparams, linenum)
      [] proc = "cmd_runtest" -> cmd_runtest(self, c, iterparams, linenum)
      [] proc = "cmd_state" -> cmd_state(self, c, iterparams, linenum)
      [] proc = "cmd_trst" -> cmd_trst(self, c, iterparams, linenum)

\* What leaves parse: the exception's type and, for the SvfError that line 325
\* builds, the line, the command name and the inner message it is made of.
NoRaise == [type |-> "none", linenum |-> None, cmd |-> None, message |-> ""]
Propagates(exc) == [type |-> exc.type, linenum |-> None, cmd |-> None, message |-> ""]

\* BaseException.message (Python 2): args[0] when there is one arg, else ''.
message_of(exc) == IF Len(exc.args) = 1 THEN exc.args[1] ELSE ""

\* Lines 324-326: only SvfError is caught; the handler reads parse's locals
\* linenum and cmd, which are unbound until the first command is taken.
except_SvfError(exc, linenum, c) ==
    IF exc = NoExc THEN NoRaise
    ELSE IF exc.type # "SvfError" THEN Propagates(exc)
    ELSE IF linenum = None \/ c = None
    THEN Propagates(Exc("UnboundLocalError", <<"linenum">>))
    ELSE [type |-> "SvfError", linenum |-> linenum, cmd |-> c, message |-> message_of(exc)]

\* Lines 315-323: one command taken from getcmds.
parse_call(self, proc, c, iterparams, linenum) ==
    IF proc = None
    THEN Raises(self, SvfError("Unknown command"))
    ELSE cmdproc(proc[1], self, c, iterparams, linenum)

parse_outcome(r, linenum, c) ==
    [self |-> r.self, value |-> r.value, raised |-> except_SvfError(r.exc, linenum, c)]

parse_body(self, params, linenum) ==
    parse_outcome(
        parse_call(self, cmds(Head(params).text), Head(params).text, Tail(params), linenum),
        Some(linenum), Some(Head(params).text))

\* The session as one value.
Self ==
    [sticky |-> sticky, FREQUENCY |-> FREQUENCY, ENDDR |-> ENDDR, ENDIR |-> ENDIR,
     RUNSTATE |-> RUNSTATE, ENDSTATE |-> ENDSTATE]

\* The effect of one pass of parse's loop on the command (params, linenum).
Dispatch(params, linenum, start) ==
    \E r \in {parse_body(Self, params, linenum)} :
        /\ sticky' = r.self.sticky
        /\ FREQUENCY' = r.self.FREQUENCY
        /\ ENDDR' = r.self.ENDDR
        /\ ENDIR' = r.self.ENDIR
        /\ RUNSTATE' = r.self.RUNSTATE
        /\ ENDSTATE' = r.self.ENDSTATE
        /\ parse_linenum' = Some(linenum)
        /\ parse_cmd' = Some(Head(params).text)
        /\ out' = IF r.raised = NoRaise /\ r.value # None THEN Append(out, r.value[1]) ELSE out
        /\ raised' = r.raised
        /\ pc' = IF r.raised = NoRaise THEN "running" ELSE "stopped"
        /\ dispatched' = Append(dispatched,
                                [params |-> params, linenum |-> linenum, start |-> start])

(***************************************************************************)
(* __init__, lines 145-159.                                                *)
(***************************************************************************)
InitSession ==
    /\ sticky = [r \in Range(registers) |->
                    [length |-> 0, MASK |-> nodata, SMASK |-> nodata,
                     TDI |-> nodata, TDO |-> nodata]]
    /\ FREQUENCY = None
    /\ ENDDR = states["IDLE"]
    /\ ENDIR = states["IDLE"]
    /\ RUNSTATE = states["IDLE"]
    /\ ENDSTATE = states["IDLE"]

\* parse before its first command, lines 310-314, and getcmds before its
\* first token, lines 117-118.
InitParse ==
    /\ tok_linenum = 0
    /\ startline = 0
    /\ cmd = <<>>
    /\ cmdlinenum = 0
    /\ inparen = FALSE
    /\ subcmd = <<>>
    /\ consumed = 0
    /\ parse_linenum = None
    /\ parse_cmd = None
    /\ out = <<>>
    /\ raised = NoRaise
    /\ pc = "running"
    /\ dispatched = <<>>

Init == InitSession /\ InitParse

(***************************************************************************)
(* Spec: the commands getcmds yields, drawn from bounded sets, each on a   *)
(* line of its own.                                                        *)
(***************************************************************************)
T(text) == Tok(text)
Toks(texts) == [i \in 1..Len(texts) |-> Tok(texts[i])]

hF == Hex(<< <<"F">> >>)
hAB == Hex(<< <<"A", "B">> >>)
hA_BC == Hex(<< <<"A">>, <<"B", "C">> >>)
hcd == Hex(<< <<"c", "d">> >>)
hEmpty == Hex(<<>>)
hG == Hex(<< <<"1">>, <<"G">> >>)

\* Register commands the code accepts: a name, a bit count, (name, hex) pairs.
RegPairsOk ==
    { <<T("8"), T("TDI"), hF>>,
      <<T("8"), T("MASK"), hA_BC, T("SMASK"), hEmpty>>,
      <<T("16"), T("TDI"), hAB, T("TDO"), hcd>>,
      <<T("16")>>,
      <<T("0"), T("TDI"), hF>>,
      <<T("-8")>> }
\* Register commands the code refuses, at once or after it changed the register.
RegPairsBad ==
    { <<>>,
      <<T("1.5")>>,
      <<hAB>>,
      <<T("8"), T("TDI")>>,
      <<T("8"), T("TDI"), T("TDO")>>,
      <<T("16"), T("BOGUS"), hAB>>,
      <<T("8"), T("TDI"), hG>>,
      <<T("16"), T("TDO"), hAB, T("TDI"), hG>> }
RegInputsOf(names) ==
    {<<T(n)>> \o ps : n \in names, ps \in RegPairsOk}
    \cup {<<T(n)>> \o ps : n \in names, ps \in RegPairsBad}

EndInputs ==
    {<<T(n)>> \o Toks(ps) : n \in {"ENDIR", "ENDDR"},
        ps \in {<<>>, <<"IRPAUSE">>, <<"DRPAUSE">>, <<"DRSHIFT">>, <<"BOGUS">>,
                <<"IDLE", "RESET">>}}

FrequencyInputs ==
    {<<T("FREQUENCY")>> \o Toks(ps) :
        ps \in {<<>>, <<"1.5", "HZ">>, <<"5">>, <<"HZ">>, <<"5", "TCK">>,
                <<"5", "HZ", "HZ">>}}

StateInputs ==
    {<<T("STATE")>> \o Toks(ps) :
        ps \in {<<>>, <<"IDLE">>, <<"RESET", "IDLE">>, <<"DRSHIFT", "DRPAUSE">>,
                <<"DRSHIFT">>, <<"IDLE", "DRSHIFT">>, <<"IDLE", "RESET_FOO">>,
                <<"BOGUS", "IDLE">>}}
    \cup {<<T("STATE"), hAB>>, <<T("STATE"), T("IDLE"), hAB>>}

TrstInputs ==
    {<<T("TRST")>> \o Toks(ps) :
        ps \in {<<>>, <<"ON">>, <<"OFF">>, <<"Z">>, <<"ABSENT">>, <<"BOGUS">>, <<"IDLE">>,
                <<"ON", "OFF">>, <<"BOGUS", "ON">>}}
    \cup {<<T("TRST"), hAB>>}

UnknownInputs ==
    {Toks(ps) : ps \in {<<"FOO">>, <<"FOO", "1">>, <<"8", "TDI">>, <<"PIOMAP">>}}
    \cup {<<hAB>>, <<hAB, T("SIR")>>}

\* RUNTEST commands, one or more for each clause of the grammar.
RuntestInputs ==
    {<<T("RUNTEST")>> \o Toks(ps) : ps \in
        { <<>>, <<"100", "TCK">>, <<"5", "SCK">>, <<"1.5", "SEC">>,
          <<"1.5", "SEC", "MAXIMUM", "2.0", "SEC">>,
          <<"5", "TCK", "1.5", "SEC", "MAXIMUM", "2.0", "SEC">>,
          <<"5", "TCK", "5", "SEC">>, <<"5">>,
          <<"100", "TCK", "ENDSTATE", "IDLE">>, <<"100", "TCK", "ENDSTATE", "IRPAUSE">>,
          <<"0", "TCK", "ENDSTATE", "DRPAUSE">>, <<"5", "SCK", "ENDSTATE", "RESET">>,
          <<"MAXIMUM", "2.0", "SEC">>, <<"5", "TCK", "MAXIMUM", "2.0", "SEC">>,
          <<"1.5", "SEC", "5", "SEC">>,
          <<"1.5", "SEC", "MAXIMUM", "2.0", "SEC", "5", "SEC">>,
          <<"1.5", "SEC", "MAXIMUM", "2.0", "SEC", "MAXIMUM", "5", "SEC">>,
          <<"1.5", "SEC", "MAXIMUM", "2.0", "TCK">>, <<"1.5", "SEC", "MAXIMUM", "X", "SEC">>,
          <<"5", "TCK", "5", "SEC", "ENDSTATE", "IDLE">>,
          <<"5", "TCK", "5.0", "SEC", "IDLE">>, <<"5", "TCK", "5", "SEC", "8", "TCK">>,
          <<"5", "TCK", "1.5", "SEC", "8", "SCK">>, <<"5", "TCK", "8", "TCK">>,
          <<"IDLE">>, <<"IDLE", "100", "TCK">>, <<"DRPAUSE", "5", "TCK", "ENDSTATE", "IDLE">>,
          <<"5", "TCK", "ENDSTATE", "IDLE", "RESET">>, <<"5", "TCK", "ENDSTATE", "DRSHIFT">>,
          <<"5", "TCK", "IDLE">>, <<"ENDSTATE", "IDLE">>, <<"5", "HZ">>, <<"X", "TCK">>,
          <<"1.5", "TCK">>, <<"X", "SEC">> }}
    \cup {<<T("RUNTEST"), hAB, T("SEC")>>}

\* parse takes the next command from getcmds and interprets it.
Take(params) ==
    /\ Dispatch(params, Len(dispatched) + 1, Len(dispatched) + 1)
    /\ UNCHANGED asmvars

Running == pc = "running" /\ Len(dispatched) < MaxCmds

CmdEnddrir ==
    /\ Running
    /\ \E params \in EndInputs : Take(params)

CmdFrequency ==
    /\ Running
    /\ \E params \in FrequencyInputs : Take(params)

CmdReg ==
    /\ Running
    /\ \E params \in RegInputsOf({"HDR", "HIR", "TDR", "TIR"}) : Take(params)

CmdShift ==
    /\ Running
    /\ \E params \in RegInputsOf({"SIR", "SDR"}) : Take(params)

CmdRuntest ==
    /\ Running
    /\ \E params \in RuntestInputs : Take(params)

CmdState ==
    /\ Running
    /\ \E params \in StateInputs : Take(params)

CmdTrst ==
    /\ Running
    /\ \E params \in TrstInputs : Take(params)

CmdUnknown ==
    /\ Running
    /\ \E params \in UnknownInputs : Take(params)

Next ==
    \/ CmdEnddrir
    \/ CmdFrequency
    \/ CmdReg
    \/ CmdShift
    \/ CmdRuntest
    \/ CmdState
    \/ CmdTrst
    \/ CmdUnknown

Spec == Init /\ [][Next]_vars

(***************************************************************************)
(* SpecRuntest: one RUNTEST command whose parameters are any list of up to *)
(* MaxRunLen of the words of the RUNTEST grammar.                          *)
(***************************************************************************)
RuntestWords == {"5", "1.5", "2.0", "TCK", "SEC", "MAXIMUM", "ENDSTATE", "IDLE"}
RuntestWordLists == UNION {[1..n -> RuntestWords] : n \in 0..MaxRunLen}

CmdRuntestWords ==
    /\ pc = "running"
    /\ dispatched = <<>>
    /\ \E ps \in RuntestWordLists : Take(<<T("RUNTEST")>> \o Toks(ps))

NextRuntest == CmdRuntestWords

SpecRuntest == Init /\ [][NextRuntest]_vars

(***************************************************************************)
(* SpecAsm: the file is read token by token.  gettokens numbers the lines  *)
(* and hands each token of a line to getcmds with the line's number; its   *)
(* own raise (line 107) cannot happen, every character that is not white   *)
(* space being matched by the pattern's last alternative.                  *)
(***************************************************************************)
\* The words of the file: the first of a command, and the ones after it.
FirstWords == {"trst", "FOO", "sir", "HIR"}
ParamWords == {"ON", "8", ")"}
SubWords == {"F", "("}

\* token.upper(), line 122.
upper(token) ==
    CASE token = "trst" -> "TRST"
      [] token = "sir" -> "SIR"
      [] OTHER -> token

\* A sub-token as the str of characters it is.
chars(token) == <<token>>

More == pc = "running" /\ consumed < MaxToks /\ tok_linenum >= 1

\* gettokens, lines 100-101: the next line of the file.
NewLine ==
    /\ pc = "running"
    /\ tok_linenum < MaxLine
    /\ tok_linenum' = tok_linenum + 1
    /\ UNCHANGED <<session, cmd, cmdlinenum, inparen, subcmd, startline, consumed,
                   parse_linenum, parse_cmd, out, raised, pc, dispatched>>

\* The line of the last token instead of the first one's.
first_line_latest(cmdlinenum_, linenum) == linenum

\* Line 121: cmdlinenum or linenum.
first_line(cmdlinenum_, linenum) == IF cmdlinenum_ # 0 THEN cmdlinenum_ ELSE linenum

\* getcmds, lines 120-122: a token that is neither ";" nor "(".
Word ==
    /\ More
    /\ ~inparen
    /\ \E token \in (IF cmd = <<>> THEN FirstWords ELSE ParamWords) :
          /\ cmdlinenum' = first_line(cmdlinenum, tok_linenum)
          /\ cmd' = Append(cmd, Tok(upper(token)))
    /\ startline' = (IF cmd = <<>> THEN tok_linenum ELSE startline)
    /\ consumed' = consumed + 1
    /\ UNCHANGED <<session, tok_linenum, inparen, subcmd,
                   parse_linenum, parse_cmd, out, raised, pc, dispatched>>

\* Lines 129-131: "(" opens the inner loop.
OpenParen ==
    /\ More
    /\ ~inparen
    /\ inparen' = TRUE
    /\ subcmd' = <<>>
    /\ startline' = (IF cmd = <<>> THEN tok_linenum ELSE startline)
    /\ consumed' = consumed + 1
    /\ UNCHANGED <<session, tok_linenum, cmd, cmdlinenum,
                   parse_linenum, parse_cmd, out, raised, pc, dispatched>>

\* Line 141: a token inside the parentheses.
SubToken ==
    /\ More
    /\ inparen
    /\ \E token \in SubWords : subcmd' = Append(subcmd, chars(token))
    /\ consumed' = consumed + 1
    /\ UNCHANGED <<session, tok_linenum, cmd, cmdlinenum, inparen, startline,
                   parse_linenum, parse_cmd, out, raised, pc, dispatched>>

\* Lines 137-140: ")" closes the block.
CloseParen ==
    /\ More
    /\ inparen
    /\ cmd' = Append(cmd, Hex(subcmd))
    /\ inparen' = FALSE
    /\ consumed' = consumed + 1
    /\ UNCHANGED <<session, tok_linenum, cmdlinenum, subcmd, startline,
                   parse_linenum, parse_cmd, out, raised, pc, dispatched>>

\* Lines 133-136: the exception getcmds raises at ";" inside the parentheses.
\* The arguments of SvfError are evaluated first, cmd[0] among them; the
\* message is not formatted: the exception gets three args.
missing_paren(buffer, line) ==
    IF buffer = <<>>
    THEN Exc("IndexError", <<"list index out of range">>)
    ELSE Exc("SvfError", <<"Missing \")\" in command %s on line %s", buffer[1].text, line>>)

\* ";" inside the parentheses: the exception passes through parse's handler.
SemiInParen ==
    /\ More
    /\ inparen
    /\ raised' = except_SvfError(missing_paren(cmd, cmdlinenum), parse_linenum, parse_cmd)
    /\ pc' = "stopped"
    /\ consumed' = consumed + 1
    /\ UNCHANGED <<session, tok_linenum, cmd, cmdlinenum, inparen, subcmd, startline,
                   parse_linenum, parse_cmd, out, dispatched>>

\* Lines 123-125: ";" with nothing in the buffer.
SemiEmpty ==
    /\ More
    /\ ~inparen
    /\ cmd = <<>>
    /\ consumed' = consumed + 1
    /\ UNCHANGED <<session, tok_linenum, cmd, cmdlinenum, inparen, subcmd, startline,
                   parse_linenum, parse_cmd, out, raised, pc, dispatched>>

\* Lines 126-128: ";" yields the command to parse, which interprets it; the
\* buffer is reset when parse comes back for the next command.
SemiCmd ==
    /\ More
    /\ ~inparen
    /\ cmd # <<>>
    /\ Dispatch(cmd, cmdlinenum, startline)
    /\ cmd' = (IF raised' = NoRaise THEN <<>> ELSE cmd)
    /\ cmdlinenum' = (IF raised' = NoRaise THEN 0 ELSE cmdlinenum)
    /\ startline' = (IF raised' = NoRaise THEN 0 ELSE startline)
    /\ consumed' = consumed + 1
    /\ UNCHANGED <<tok_linenum, inparen, subcmd>>

\* Lines 142-143: the tokens end (inside the parentheses too: the inner loop
\* ends, then the outer one) and a buffer that is not empty is yielded.
EofCmd ==
    /\ pc = "running"
    /\ cmd # <<>>
    /\ \E r \in {parse_body(Self, cmd, cmdlinenum)} :
          /\ sticky' = r.self.sticky
          /\ FREQUENCY' = r.self.FREQUENCY
          /\ ENDDR' = r.self.ENDDR
          /\ ENDIR' = r.self.ENDIR
          /\ RUNSTATE' = r.self.RUNSTATE
          /\ ENDSTATE' = r.self.ENDSTATE
          /\ out' = IF r.raised = NoRaise /\ r.value # None THEN Append(out, r.value[1]) ELSE out
          /\ raised' = r.raised
    /\ parse_linenum' = Some(cmdlinenum)
    /\ parse_cmd' = Some(Head(cmd).text)
    /\ dispatched' = Append(dispatched,
                            [params |-> cmd, linenum |-> cmdlinenum, start |-> startline])
    /\ pc' = "stopped"
    /\ inparen' = FALSE
    /\ UNCHANGED <<tok_linenum, cmd, cmdlinenum, subcmd, startline, consumed>>

EofEmpty ==
    /\ pc = "running"
    /\ cmd = <<>>
    /\ pc' = "stopped"
    /\ inparen' = FALSE
    /\ UNCHANGED <<session, tok_linenum, cmd, cmdlinenum, subcmd, startline, consumed,
                   parse_linenum, parse_cmd, out, raised, dispatched>>

NextAsm ==
    \/ NewLine
    \/ Word
    \/ OpenParen
    \/ SubToken
    \/ CloseParen
    \/ SemiInParen
    \/ SemiEmpty
    \/ SemiCmd
    \/ EofCmd
    \/ EofEmpty

SpecAsm == Init /\ [][NextAsm]_vars

(***************************************************************************)
(* The properties.  LastCmd is the command parse interpreted last, and     *)
(* Succeeded says that no exception left parse.                            *)
(***************************************************************************)
LastCmd == Last(dispatched).params
LastName == LastCmd[1].text
LastLine == Last(dispatched).linenum
Succeeded == raised = NoRaise
Interpreted(names) == dispatched # <<>> /\ LastName \in names
RegNames == Range(registers)
ParamNames == Range(paramtypes)

\* What a reference held by a Shift record shows.
Deref(ref) == sticky[ref]

\* The parameters a register command names, and the hex block it gives the
\* last time it names p.
Named(params) == {params[i].text : i \in {j \in 3..Len(params) : j % 2 = 1}}
BlockOf(params, p) ==
    params[1 + CHOOSE i \in {j \in 3..Len(params) : j % 2 = 1} :
                /\ params[i].text = p
                /\ \A k \in {j \in (i + 1)..Len(params) : j % 2 = 1} : params[k].text # p]

\* C1: for every register and every parameter, the stored (length, bytes)
\* pair is (0, empty) or its length is the register's bit-length: no value
\* of a stale width is kept.
C1_NoStaleWidth ==
    \A r \in RegNames, p \in ParamNames :
        sticky[r][p] = nodata \/ sticky[r][p][1] = sticky[r].length

\* C2: a successful register or shift command on R with bit-length n leaves
\* (a) every parameter of R it does not name and whose stored length is n,
\* and (b) the other five registers as they were; the parameters it does not
\* name are never given a new value (they stay, or are reset as stale).
C2_Step ==
    /\ dispatched' # dispatched
    /\ raised' = NoRaise
    /\ Last(dispatched').params[1].text \in RegNames
C2_FrameOf(R, N) ==
    /\ \A p \in ParamNames \ N :
          /\ sticky[R][p][1] = sticky'[R].length => sticky'[R][p] = sticky[R][p]
          /\ sticky'[R][p] \in {sticky[R][p], nodata}
    /\ \A r \in RegNames \ {R} : sticky'[r] = sticky[r]
C2_Frame ==
    [][C2_Step =>
        C2_FrameOf(Last(dispatched').params[1].text, Named(Last(dispatched').params))]_vars

\* C2's case: a bare "R 16" after "R 16 TDI (AB) TDO (cd)" keeps TDI and TDO.
C2_Witness ==
    \E R \in RegNames :
        /\ Len(dispatched) = 2
        /\ dispatched[1].params = <<T(R), T("16"), T("TDI"), hAB, T("TDO"), hcd>>
        /\ LastCmd = <<T(R), T("16")>>
        /\ Succeeded
        /\ sticky[R].TDI = <<16, <<171>>>>
        /\ sticky[R].TDO = <<16, <<205>>>>

\* C3: a successful SIR emits a Shift record whose header, data and trailer
\* show the current HIR, SIR and TIR and whose endstate is ENDIR; a
\* successful SDR one built from HDR, SDR, TDR and ENDDR.
C3_ShiftRecord ==
    (Interpreted({"SIR", "SDR"}) /\ Succeeded) =>
        /\ out # <<>>
        /\ Last(out).kind = "Shift"
        /\ Last(out).cmd = LastName
        /\ Last(out).linenum = LastLine
        /\ Deref(Last(out).header) = sticky[IF LastName = "SIR" THEN "HIR" ELSE "HDR"]
        /\ Deref(Last(out).data) = sticky[LastName]
        /\ Deref(Last(out).trailer) = sticky[IF LastName = "SIR" THEN "TIR" ELSE "TDR"]
        /\ Last(out).endstate = (IF LastName = "SIR" THEN ENDIR ELSE ENDDR)

\* C3's case: SIR after an HIR that set the header: the record shows the
\* header's TDI, set by the earlier command, and the data's own TDI.
C3_Witness ==
    /\ Len(dispatched) = 2
    /\ dispatched[1].params = <<T("HIR"), T("8"), T("TDI"), hF>>
    /\ LastCmd = <<T("SIR"), T("16"), T("TDI"), hAB, T("TDO"), hcd>>
    /\ Succeeded
    /\ Last(out).kind = "Shift"
    /\ Deref(Last(out).header).TDI = <<8, <<15>>>>
    /\ Deref(Last(out).data).TDI = <<16, <<171>>>>
    /\ Deref(Last(out).trailer).length = 0

\* The number a string of hex digits writes, and its n bytes, first byte first.
RECURSIVE HexNum(_)
HexNum(digits) ==
    IF digits = <<>> THEN 0
    ELSE 16 * HexNum(SubSeq(digits, 1, Len(digits) - 1)) + HexVal(Last(digits))
BytesOf(v, n) == [i \in 1..n |-> (v \div (256 ^ (n - i))) % 256]

\* A register command of the right shape: a bit count, then pairs of a
\* parameter name and a hex block.
WellFormed(params) ==
    /\ Len(params) >= 2
    /\ int(params[2].text) # None
    /\ \A i \in {j \in 3..Len(params) : j % 2 = 1} :
          /\ params[i].text \in ParamNames
          /\ i + 1 <= Len(params)
          /\ params[i + 1].text = hexdata_text
Blocks(params) == {params[i] : i \in {j \in 3..Len(params) : j % 2 = 0}}
AllHex(block) == \A i \in 1..Len(join(block.values)) : IsHexDigit(join(block.values)[i])

\* C10: a register parameter's block is stored as the bytes of the number
\* its concatenated digits write, in ceil(digits / 2) bytes: an odd count is
\* padded on the left ("F" is the byte 0x0F), an even one is not padded; a
\* block with a character that is no hex digit fails with SvfError.
C10_HexDecoded ==
    (Interpreted(RegNames) /\ WellFormed(LastCmd)) =>
        IF \A b \in Blocks(LastCmd) : AllHex(b)
        THEN /\ Succeeded
             /\ \A p \in Named(LastCmd) :
                   LET digits == join(BlockOf(LastCmd, p).values)
                   IN  /\ sticky[LastName][p] =
                            <<sticky[LastName].length,
                              BytesOf(HexNum(digits), (Len(digits) + 1) \div 2)>>
                       /\ digits = <<"F">> => sticky[LastName][p][2] = <<15>>
        ELSE /\ raised.type = "SvfError"
             /\ raised.message = "Invalid (<hex data>) for parameter"

\* C10's case: the odd block (A BC) of two sub-tokens is stored as 0x0A 0xBC,
\* beside the empty block, stored as no bytes.
C10_Witness ==
    \E R \in RegNames :
        /\ dispatched # <<>>
        /\ LastCmd = <<T(R), T("8"), T("MASK"), hA_BC, T("SMASK"), hEmpty>>
        /\ Succeeded
        /\ sticky[R].MASK = <<8, <<10, 188>>>>
        /\ sticky[R].SMASK = <<8, <<>>>>

\* C4: for every n >= 0 and stable state s, RUNTEST n TCK ENDSTATE s yields
\* one RunTest record with clocks n, the primary clock, seconds [None, None]
\* and endstate s, and leaves the run-state as it was.
C4_Shape(params) ==
    /\ Len(params) = 5
    /\ params[1].text = "RUNTEST"
    /\ int(params[2].text) # None
    /\ int(params[2].text)[1] >= 0
    /\ params[3].text = "TCK"
    /\ params[4].text = "ENDSTATE"
    /\ params[5].text \in stable
C4_RuntestTckEndstate ==
    [][(dispatched' # dispatched /\ C4_Shape(Last(dispatched').params)) =>
        LET p == Last(dispatched').params
        IN  /\ raised' = NoRaise
            /\ out' = Append(out, RunTest(int(p[2].text), FALSE, <<None, None>>, RUNSTATE,
                                          states[p[5].text], Last(dispatched').linenum))
            /\ RUNSTATE' = RUNSTATE]_vars

\* C6: TRST with exactly one parameter of ON, OFF, Z, ABSENT emits Trst with
\* 1, 0, 2, 3; any other TRST command fails with SvfError.
C6_TrstValue(text) ==
    CASE text = "ON" -> 1 [] text = "OFF" -> 0 [] text = "Z" -> 2 [] text = "ABSENT" -> 3
C6_Trst ==
    Interpreted({"TRST"}) =>
        IF Len(LastCmd) = 2 /\ LastCmd[2].text \in {"ON", "OFF", "Z", "ABSENT"}
        THEN /\ Succeeded
             /\ out # <<>>
             /\ Last(out) = Trst(C6_TrstValue(LastCmd[2].text), LastLine)
        ELSE raised.type = "SvfError"

\* C7: STATE is accepted exactly when it has one or more parameters, each
\* names a state of the table and the last one is stable, and then emits the
\* resolved states in order; every other STATE command fails with SvfError.
C7_State ==
    Interpreted({"STATE"}) =>
        LET ps == Tail(LastCmd)
        IN  IF /\ ps # <<>>
               /\ \A i \in 1..Len(ps) : ps[i].text \in Range(StateNames)
               /\ Last(ps).text \in stable
            THEN /\ Succeeded
                 /\ out # <<>>
                 /\ Last(out) = State([i \in 1..Len(ps) |-> states[ps[i].text]], LastLine)
            ELSE raised.type = "SvfError"

\* The parameters of the RUNTEST command as texts, its "x SEC" clauses (a
\* number, then SEC), and whether a MAXIMUM stands before position i.
RunParams == [i \in 1..(Len(LastCmd) - 1) |-> LastCmd[i + 1].text]
SecAt(i) == i >= 2 /\ i <= Len(RunParams) /\ RunParams[i] = "SEC" /\ float(RunParams[i - 1]) # None
MaxBefore(i) == \E j \in 1..(i - 1) : RunParams[j] = "MAXIMUM"
MinClauses == {i \in 1..Len(RunParams) : SecAt(i) /\ ~MaxBefore(i)}
MaxClauses == {i \in 1..Len(RunParams) : SecAt(i) /\ MaxBefore(i)}
SlotOf(clauses) ==
    IF clauses = {} THEN None ELSE float(RunParams[(CHOOSE i \in clauses : TRUE) - 1])

\* C5: in a RUNTEST command "x SEC" fills the minimum seconds slot and
\* "MAXIMUM y SEC" the maximum one, so "x SEC MAXIMUM y SEC" yields seconds
\* [x, y]; a command that fills a slot twice fails, and so does one whose
\* MAXIMUM has no minimum set before it.
C5_SecondsSlots ==
    Interpreted({"RUNTEST"}) =>
        /\ Succeeded =>
              /\ Cardinality(MinClauses) <= 1
              /\ Cardinality(MaxClauses) <= 1
              /\ \A j \in 1..Len(RunParams) :
                    RunParams[j] = "MAXIMUM" => \E i \in MinClauses : i < j
              /\ out # <<>>
              /\ Last(out).kind = "RunTest"
              /\ Last(out).secs = <<SlotOf(MinClauses), SlotOf(MaxClauses)>>
        /\ (Len(RunParams) = 5 /\ SecAt(2) /\ RunParams[3] = "MAXIMUM" /\ SecAt(5)) =>
              /\ Succeeded
              /\ Last(out).secs = <<float(RunParams[1]), float(RunParams[4])>>

\* C5's case: RUNTEST 1.5 SEC MAXIMUM 2.0 SEC yields seconds [1.5, 2.0].
C5_Witness ==
    /\ dispatched # <<>>
    /\ LastCmd = Toks(<<"RUNTEST", "1.5", "SEC", "MAXIMUM", "2.0", "SEC">>)
    /\ Succeeded
    /\ Last(out).secs = <<Some(15), Some(20)>>

\* The twelve keywords of the dispatch table.
Keywords == {"ENDIR", "ENDDR", "FREQUENCY", "HDR", "HIR", "TDR", "TIR", "SIR", "SDR",
             "RUNTEST", "STATE", "TRST"}

\* C8: a command whose first token is none of the twelve keywords fails with
\* an SvfError that names the line the command starts on and its leading
\* token, emits no record and changes no session state.
C8_UnknownCommand ==
    [][(dispatched' # dispatched /\ Last(dispatched').params[1].text \notin Keywords) =>
        /\ raised' = [type |-> "SvfError",
                      linenum |-> Some(Last(dispatched').start),
                      cmd |-> Some(Last(dispatched').params[1].text),
                      message |-> "Unknown command"]
        /\ out' = out
        /\ session' = session]_vars

\* The command a failure arose in: the one getcmds was assembling when it
\* raised, else the one parse interpreted last.
FailedLine == IF inparen THEN startline ELSE Last(dispatched).start
FailedName ==
    IF inparen
    THEN (IF cmd = <<>> THEN hexdata_text ELSE cmd[1].text)
    ELSE LastName

\* C9: every failure of a parse leaves it as an SvfError whose context is the
\* line and the name of the command the failure arose in.
C9_ErrorContext ==
    raised # NoRaise =>
        /\ raised.type = "SvfError"
        /\ raised.linenum = Some(FailedLine)
        /\ raised.cmd = Some(FailedName)

\* C11: the header, data and trailer of a Shift record that was yielded are
\* snapshots: no later command alters the bit-length or the MASK, SMASK, TDI
\* and TDO values the record reports.
C11_Snapshot ==
    [][\A i \in 1..Len(out) :
          out[i].kind = "Shift" =>
              /\ out'[i] = out[i]
              /\ \A ref \in {out[i].header, out[i].data, out[i].trailer} :
                    sticky'[ref] = sticky[ref]]_vars

\* C12: ENDIR or ENDDR succeeds exactly when it has one parameter and that
\* one is IRPAUSE, DRPAUSE, RESET or IDLE; it then sets the end state of its
\* own kind only and emits no record.  Any other ENDIR or ENDDR command fails
\* with SvfError and leaves both end states as they were.
C12_EndState ==
    [][(dispatched' # dispatched /\ Last(dispatched').params[1].text \in {"ENDIR", "ENDDR"}) =>
        LET p == Last(dispatched').params
        IN  IF Len(p) = 2 /\ p[2].text \in {"IRPAUSE", "DRPAUSE", "RESET", "IDLE"}
            THEN /\ raised' = NoRaise
                 /\ out' = out
                 /\ ENDIR' = (IF p[1].text = "ENDIR" THEN states[p[2].text] ELSE ENDIR)
                 /\ ENDDR' = (IF p[1].text = "ENDDR" THEN states[p[2].text] ELSE ENDDR)
                 /\ UNCHANGED <<sticky, FREQUENCY, RUNSTATE, ENDSTATE>>
            ELSE /\ raised'.type = "SvfError"
                 /\ out' = out
                 /\ UNCHANGED <<ENDIR, ENDDR>>]_vars

\* C13: every register's bit-length is a non-negative integer in every
\* state: a register or shift command whose first parameter is missing, is
\* no integer or is a negative integer fails with SvfError and leaves the
\* register's length as it was.
C13_BadCount(p) ==
    \/ Len(p) < 2
    \/ int(p[2].text) = None
    \/ int(p[2].text)[1] < 0
C13_NonNegativeLength ==
    [][/\ \A r \in RegNames : sticky'[r].length >= 0
       /\ (/\ dispatched' # dispatched
           /\ Last(dispatched').params[1].text \in RegNames
           /\ C13_BadCount(Last(dispatched').params)) =>
              /\ raised'.type = "SvfError"
              /\ sticky'[Last(dispatched').params[1].text].length =
                     sticky[Last(dispatched').params[1].text].length]_vars

\* The bare values of the RUNTEST command: a token that is no state name, no
\* MAXIMUM and no ENDSTATE, and that is not the unit of the value before it.
RunBare(i) == RunParams[i] \notin stable \cup {"MAXIMUM", "ENDSTATE"}
RECURSIVE RunValue(_)
RunValue(i) == RunBare(i) /\ ~(i > 1 /\ RunValue(i - 1))
RunPending == RunParams # <<>> /\ RunValue(Len(RunParams))

\* C14: in a RUNTEST command every bare value is followed at once by TCK, SCK
\* or SEC, is an integer for TCK and SCK and a float for SEC; a command that
\* breaks this, or that ends with a value and no unit after it, fails and
\* emits no RunTest record.
C14_PendingValue ==
    Interpreted({"RUNTEST"}) =>
        /\ Succeeded =>
              \A i \in 1..Len(RunParams) :
                  RunValue(i) =>
                      /\ i < Len(RunParams)
                      /\ RunParams[i + 1] \in {"TCK", "SCK", "SEC"}
                      /\ RunParams[i + 1] \in {"TCK", "SCK"} => int(RunParams[i]) # None
                      /\ RunParams[i + 1] = "SEC" => float(RunParams[i]) # None
        /\ RunPending => (~Succeeded /\ out = <<>>)

\* Whether a clock-length clause (a value, then TCK, SCK or SEC), a state
\* name or ENDSTATE stands before position i of the RUNTEST command.
ClauseBefore(i) ==
    \E j \in 2..(i - 1) : RunParams[j] \in {"TCK", "SCK", "SEC"} /\ RunValue(j - 1)
StateBefore(i) == \E j \in 1..(i - 1) : RunParams[j] \in stable
EndBefore(i) == \E j \in 1..(i - 1) : RunParams[j] = "ENDSTATE"
LegalState(i) ==
    \/ ~ClauseBefore(i) /\ ~StateBefore(i) /\ ~EndBefore(i)
    \/ i > 1 /\ RunParams[i - 1] = "ENDSTATE" /\ ClauseBefore(i - 1) /\ ~EndBefore(i - 1)

\* C15: in a RUNTEST command a state name is legal in two positions only: as
\* the single bare state before any clock-length clause, and as the one state
\* after ENDSTATE.  There it is accepted; a state name anywhere else, and an
\* ENDSTATE before any clock-length clause, make the command fail.
C15_StatePositions ==
    Interpreted({"RUNTEST"}) =>
        /\ Succeeded =>
              \A i \in 1..Len(RunParams) :
                  /\ RunParams[i] \in stable => LegalState(i)
                  /\ RunParams[i] = "ENDSTATE" => ClauseBefore(i)
        /\ (Len(RunParams) = 1 /\ RunParams[1] \in stable) =>
              /\ Succeeded
              /\ RUNSTATE = states[RunParams[1]]
              /\ ENDSTATE = states[RunParams[1]]

\* The texts of the parameters of a command.
TextsOf(params) == [i \in 1..(Len(params) - 1) |-> params[i + 1].text]

\* C16: run-state and end-state persist across RUNTEST commands.  A RUNTEST
\* whose first parameter is a bare state sets both to it; a successful
\* RUNTEST that names no state leaves both and emits a record that carries
\* them; a command of any other kind leaves both as they were.
C16_RunEndState ==
    [][dispatched' # dispatched =>
        LET p == Last(dispatched').params
            ps == TextsOf(p)
        IN  IF p[1].text # "RUNTEST"
            THEN UNCHANGED <<RUNSTATE, ENDSTATE>>
            ELSE /\ (Len(ps) = 1 /\ ps[1] \in stable) =>
                       /\ raised' = NoRaise
                       /\ RUNSTATE' = states[ps[1]]
                       /\ ENDSTATE' = states[ps[1]]
                 /\ (raised' = NoRaise /\ \A i \in 1..Len(ps) : ps[i] \notin stable) =>
                       /\ UNCHANGED <<RUNSTATE, ENDSTATE>>
                       /\ out' # <<>>
                       /\ Last(out').kind = "RunTest"
                       /\ Last(out').runstate = RUNSTATE
                       /\ Last(out').endstate = ENDSTATE]_vars

\* C17: a ";" met while a "(" is open fails with SvfError whatever the
\* command buffer holds, the empty buffer included, and no command is
\* yielded for the block that was not closed.
C17_SemiInParen ==
    [][(inparen /\ inparen' /\ pc = "running" /\ pc' = "stopped") =>
        /\ raised'.type = "SvfError"
        /\ dispatched' = dispatched
        /\ out' = out]_vars

\* The commands that yield a record, with the kind of the record, and the
\* commands of the file that were interpreted without a failure.
RecordKind(name) ==
    CASE name = "FREQUENCY" -> "Frequency"
      [] name \in {"SIR", "SDR"} -> "Shift"
      [] name = "RUNTEST" -> "RunTest"
      [] name = "STATE" -> "State"
      [] name = "TRST" -> "TRST"
      [] OTHER -> "none"
Interpreter_failed == raised # NoRaise /\ ~inparen
Yielding ==
    {i \in 1..Len(dispatched) :
        /\ RecordKind(dispatched[i].params[1].text) # "none"
        /\ (i < Len(dispatched) \/ ~Interpreter_failed)}
Rank(i) == Cardinality({j \in Yielding : j <= i})

\* C18: the records yielded are, one for one and in order, the FREQUENCY,
\* SIR, SDR, RUNTEST, STATE and TRST commands interpreted without failure,
\* each with the line of the first token of its command; the other commands
\* and empty ";" yield none, and no record is yielded for or after the first
\* failing command.
C18_RecordSequence ==
    /\ Len(out) = Cardinality(Yielding)
    /\ \A i \in Yielding :
          /\ out[Rank(i)].kind = RecordKind(dispatched[i].params[1].text)
          /\ out[Rank(i)].linenum = dispatched[i].start

\* C18's case: HIR on line 1 yields nothing, the TRST begun on line 1 and
\* ended on line 2 yields the one record, with line 1.
C18_Witness ==
    /\ Len(dispatched) = 2
    /\ dispatched[1].params[1].text = "HIR"
    /\ dispatched[2].params = Toks(<<"TRST", "ON">>)
    /\ tok_linenum = 2
    /\ out = <<Trst(1, 1)>>
    /\ Succeeded

\* The TCK and SCK clauses of the RUNTEST command.
ClockClauses ==
    {i \in 2..Len(RunParams) : RunParams[i] \in {"TCK", "SCK"} /\ RunValue(i - 1)}

\* C19: in a RUNTEST command "a clock-length clause has been seen" depends on
\* the clauses accepted before, never on their numbers: after n TCK x SEC,
\* with n equal to x or not, ENDSTATE and a stable state are accepted and set
\* the end-state, a bare state name is rejected and a second TCK or SCK
\* clause is rejected.
C19_ClockSeen ==
    Interpreted({"RUNTEST"}) =>
        /\ Succeeded =>
              /\ Cardinality(ClockClauses) <= 1
              /\ \A i \in 2..Len(RunParams) :
                    (RunParams[i] \in stable /\ ClauseBefore(i)) =>
                        RunParams[i - 1] = "ENDSTATE"
        /\ (/\ Len(RunParams) = 6
            /\ int(RunParams[1]) # None
            /\ RunParams[2] \in {"TCK", "SCK"}
            /\ float(RunParams[3]) # None
            /\ RunParams[4] = "SEC"
            /\ RunParams[5] = "ENDSTATE"
            /\ RunParams[6] \in stable) =>
              /\ Succeeded
              /\ ENDSTATE = states[RunParams[6]]

\* C20: getcmds drops no token of the input: when the input ends without a
\* failure, also while a "(" is open, the tokens collected after the "(" are
\* in a yielded command and the buffer was yielded.
C20_InputEnds == pc = "running" /\ pc' = "stopped" /\ ~inparen' /\ raised' = NoRaise
C20_NothingDropped ==
    [][C20_InputEnds =>
        /\ ~(inparen /\ \E i \in 1..Len(subcmd) : subcmd[i] # chars("("))
        /\ cmd # <<>> => (dispatched' # dispatched /\ Last(dispatched').params = cmd)]_vars

====
